---- MODULE Spec2Model ----
(***************************************************************************)
(* A model of the od(1) and tee(1) commands of rust-v7-cmd.                *)
(*                                                                         *)
(*   src/src/bin/od.rs   parse_offset, the write_* encoders, od, main      *)
(*   src/src/bin/tee.rs  Tee::write, main                                  *)
(*                                                                         *)
(* Strings are sequences of one-character strings.  A u64 is a sequence of *)
(* four 16-bit limbs, least significant first, so that 64-bit overflow is  *)
(* modelled at its true width.                                             *)
(***************************************************************************)
EXTENDS Integers, Sequences, FiniteSets

VARIABLES
    pc,        \* position of main/od: args, parse, open, seek, read, fmt, advance, close, exit, done
    opts,      \* od: the option letters on the command line, in order
    offstr,    \* od: the offset specifier handed to parse_offset
    flen,      \* od: length in bytes of the input (environment)
    presult,   \* od: outcome of parse_offset
    fmt_fns,   \* od: the configured encoders, in order
    width,     \* od: the column width
    start,     \* od: the starting offset od() was called with
    offset,    \* od: the running offset
    pos,       \* od: the reader's position in the input
    n,         \* od: byte count of the last read
    fi,        \* od: index of the next encoder for the current chunk
    nreads,    \* od: number of reads attempted
    chunks,    \* od: <<pos, n>> of every non-empty chunk, in order
    out,       \* od: what has been handed to the writer, line by line
    ret,       \* od: od()'s return value
    err,       \* od: the operation whose error od() returned
    status,    \* od: the exit status of the process
    data,      \* encoders: the chunk handed to the encoders
    enc_width, \* encoders: the column width
    text,      \* encoders: the text each word encoder has written, by encoder
    tpc,       \* tee: position of main: open, read, write, done, failed
    opens,     \* tee: whether each file argument can be opened (environment)
    input,     \* tee: the bytes of standard input
    rpos,      \* tee: bytes of standard input read so far
    buf,       \* tee: the bytes write_all has still to write
    dests      \* tee: the bytes each writer of the Tee has received

odvars == <<pc, opts, offstr, flen, presult, fmt_fns, width, start, offset,
            pos, n, fi, nreads, chunks, out, ret, err, status>>

encvars == <<data, enc_width, text>>

teevars == <<tpc, opens, input, rpos, buf, dests>>

vars == <<odvars, encvars, teevars>>

\* The three word encoders.
WordEncoders == {"write_oct_words", "write_dec_words", "write_hex_words"}

\* The parts of the state a specification does not use stay as they are here.
OdIdle ==
    /\ pc = "idle"
    /\ opts = <<>>
    /\ offstr = <<>>
    /\ flen = 0
    /\ presult = [kind |-> "None"]
    /\ fmt_fns = <<>>
    /\ width = 0
    /\ start = 0
    /\ offset = 0
    /\ pos = 0
    /\ n = 0
    /\ fi = 0
    /\ nreads = 0
    /\ chunks = <<>>
    /\ out = <<>>
    /\ ret = "None"
    /\ err = "none"
    /\ status = -1

EncIdle ==
    /\ data = <<>>
    /\ enc_width = 0
    /\ text = [f \in WordEncoders |-> <<>>]

TeeIdle ==
    /\ tpc = "idle"
    /\ opens = <<>>
    /\ input = <<>>
    /\ rpos = 0
    /\ buf = <<>>
    /\ dests = <<>>

----------------------------------------------------------------------------
(* Bounds of the model.                                                    *)

\* Longest specifier enumerated over the whole alphabet.
MaxStrLen == 4
\* Longest run of one repeated digit (reaches past 64 bits in both radices).
MaxRep == 23

----------------------------------------------------------------------------
(* 64-bit unsigned arithmetic on 16-bit limbs.                             *)

LimbBase == 65536
U64Limbs == 4

RECURSIVE MulAddLimbs(_, _, _, _)
\* x * k + d over the limbs of x from index i on; the last element of the
\* result is the carry out of the top limb.
MulAddLimbs(x, k, d, i) ==
    IF i > Len(x) THEN <<d>>
    ELSE LET t == x[i] * k + d
         IN  <<t % LimbBase>> \o MulAddLimbs(x, k, t \div LimbBase, i + 1)

U64Zero == [i \in 1..U64Limbs |-> 0]

\* u64::checked_mul followed by u64::checked_add: the value, or overflow.
CheckedMulAdd(x, k, d) ==
    LET r == MulAddLimbs(x, k, d, 1)
    IN  [overflow |-> r[U64Limbs + 1] # 0, val |-> SubSeq(r, 1, U64Limbs)]

\* The value of a u64 that fits the model's integers; od is modelled for
\* such offsets only.
U64ToNat(x) == x[1] + LimbBase * x[2]

U64IsSmall(x) == x[3] = 0 /\ x[4] = 0 /\ x[2] < 16384

----------------------------------------------------------------------------
(* parse_offset                                                            *)

OctalDigits == <<"0", "1", "2", "3", "4", "5", "6", "7">>
DecimalDigits == OctalDigits \o <<"8", "9">>

\* A to_digit that takes every decimal digit whatever the radix.
ToDigit_AnyRadix(c, r) ==
    IF \E i \in 1..Len(DecimalDigits) : DecimalDigits[i] = c
    THEN (CHOOSE i \in 1..Len(DecimalDigits) : DecimalDigits[i] = c) - 1
    ELSE -1

\* char::to_digit(radix) for radix 8 and 10: the digit's value, or -1.
ToDigit(c, r) ==
    LET ds == IF r = 8 THEN OctalDigits ELSE DecimalDigits
    IN  IF \E i \in 1..Len(ds) : ds[i] = c
        THEN (CHOOSE i \in 1..Len(ds) : ds[i] = c) - 1
        ELSE -1

RECURSIVE AccumulateDigits(_, _, _, _)
\* The digit loop of from_str_radix: result = result * radix + digit, checked.
AccumulateDigits(s, r, i, acc) ==
    IF i > Len(s) THEN [kind |-> "Ok", val |-> acc]
    ELSE IF ToDigit(s[i], r) < 0 THEN [kind |-> "Err", err |-> "InvalidDigit"]
    ELSE LET m == CheckedMulAdd(acc, r, ToDigit(s[i], r))
         IN  IF m.overflow THEN [kind |-> "Err", err |-> "PosOverflow"]
             ELSE AccumulateDigits(s, r, i + 1, m.val)

\* A from_str_radix that takes no sign: '+' is one more invalid digit.
from_str_radix_NoSign(s, r) ==
    IF Len(s) = 0 THEN [kind |-> "Err", err |-> "Empty"]
    ELSE AccumulateDigits(s, r, 1, U64Zero)

\* u64::from_str_radix: an optional '+' sign, then at least one digit.
from_str_radix(s, r) ==
    IF Len(s) = 0 THEN [kind |-> "Err", err |-> "Empty"]
    ELSE IF s[1] = "+" /\ Len(s) = 1 THEN [kind |-> "Err", err |-> "InvalidDigit"]
    ELSE IF s[1] = "+" THEN AccumulateDigits(s, r, 2, U64Zero)
    ELSE AccumulateDigits(s, r, 1, U64Zero)

\* The match of parse_offset: the digit substring s, the radix r and mult.
SplitOffset(str) ==
    LET len == Len(str)
    IN  IF len = 0 THEN [s |-> <<>>, r |-> 8, mult |-> 1]
        ELSE IF str[len] = "b" THEN
            IF len = 1 THEN [s |-> <<>>, r |-> 8, mult |-> 512]
            ELSE IF str[len - 1] = "."
                 THEN [s |-> SubSeq(str, 1, len - 2), r |-> 10, mult |-> 512]
                 ELSE [s |-> SubSeq(str, 1, len - 1), r |-> 8, mult |-> 512]
        ELSE IF str[len] = "."
             THEN [s |-> SubSeq(str, 1, len - 1), r |-> 10, mult |-> 1]
             ELSE [s |-> str, r |-> 8, mult |-> 1]

\* n * mult on u64: the product when it fits; on overflow the build decides,
\* a panic with overflow checks and the wrapped product without.
MulOutcomes(x, mult) ==
    LET m == CheckedMulAdd(x, mult, 0)
    IN  IF m.overflow
        THEN {[kind |-> "Panic"], [kind |-> "Ok", val |-> m.val]}
        ELSE {[kind |-> "Ok", val |-> m.val]}

\* parse_offset: the set of outcomes the build can produce.
parse_offset(str) ==
    LET sp == SplitOffset(str)
        p  == from_str_radix(sp.s, sp.r)
    IN  IF p.kind = "Ok" THEN MulOutcomes(p.val, sp.mult) ELSE {p}

----------------------------------------------------------------------------
(* The inputs of the parser specification.                                 *)

Alphabet == {"+", "0", "1", "7", "8", ".", "b", "x"}

RECURSIVE StringsUpTo(_)
StringsUpTo(k) ==
    IF k = 0 THEN {<<>>}
    ELSE LET shorter == StringsUpTo(k - 1)
         IN  shorter \cup {Append(s, c) : s \in {t \in shorter : Len(t) = k - 1},
                                          c \in Alphabet}

Rep(c, k) == [i \in 1..k |-> c]

LongStrings ==
    {pre \o Rep(d, k) \o suf :
        pre \in {<<>>, <<"+">>}, d \in {"1", "7", "9"}, k \in 1..MaxRep,
        suf \in {<<>>, <<".">>, <<"b">>, <<".", "b">>}}

\* The specifiers of test_parse_offset (lines 145-166), bare and after '+'.
TestStrings ==
    {pre \o <<"1", "0", "0">> \o suf :
        pre \in {<<>>, <<"+">>}, suf \in {<<>>, <<".">>, <<"b">>, <<".", "b">>}}

ParseInputs == StringsUpTo(MaxStrLen) \cup LongStrings \cup TestStrings

NoResult == [kind |-> "None"]

----------------------------------------------------------------------------
(* main of od: the call of parse_offset.                                   *)

\* od.rs main, lines 274-277: Ok(off) sets the offset; Err(e) prints the
\* error and leaves the offset 0; a panic ends the process with status 101.
MainParseOffset ==
    /\ pc = "parse"
    /\ \E r \in parse_offset(offstr) :
          /\ presult' = r
          /\ IF r.kind = "Panic"
             THEN pc' = "done" /\ status' = 101
             ELSE pc' = "open" /\ status' = status
    /\ UNCHANGED <<opts, offstr, flen, fmt_fns, width, start, offset, pos, n,
                   fi, nreads, chunks, out, ret, err>>
    /\ UNCHANGED <<encvars, teevars>>

----------------------------------------------------------------------------
(* main of od: the options.                                                *)

CHUNK_SIZE == 16

Flags == {"b", "c", "d", "x", "o"}

\* The encoder an option letter pushes (main, lines 219-248).
FmtFnOf(flag) ==
    CASE flag = "b" -> "write_oct_bytes"
      [] flag = "c" -> "write_ascii_chars"
      [] flag = "d" -> "write_dec_words"
      [] flag = "x" -> "write_hex_words"
      [] flag = "o" -> "write_oct_words"

\* The least width an option letter asks for.
MinWidthOf(flag) ==
    CASE flag = "b" -> 7
      [] flag = "c" -> 7
      [] flag = "d" -> 5
      [] flag = "x" -> 4
      [] flag = "o" -> 6

RECURSIVE GetOptLoop(_, _, _)
\* The for loop of main over the option letters: push the encoder, raise
\* the width to the encoder's least width.
GetOptLoop(os, i, acc) ==
    IF i > Len(os) THEN acc
    ELSE GetOptLoop(os, i + 1,
            [fns   |-> Append(acc.fns, FmtFnOf(os[i])),
             width |-> IF acc.width < MinWidthOf(os[i])
                       THEN MinWidthOf(os[i]) ELSE acc.width])

\* main, lines 210-272: the options, then the default of octal words.
Configure(os) ==
    LET c == GetOptLoop(os, 1, [fns |-> <<>>, width |-> 0])
    IN  IF c.fns = <<>> THEN [fns |-> <<"write_oct_words">>, width |-> 6] ELSE c

MainArgs ==
    /\ pc = "args"
    /\ fmt_fns' = Configure(opts).fns
    /\ width' = Configure(opts).width
    /\ pc' = "parse"
    /\ UNCHANGED <<opts, offstr, flen, presult, start, offset, pos, n, fi,
                   nreads, chunks, out, ret, err, status>>
    /\ UNCHANGED <<encvars, teevars>>

----------------------------------------------------------------------------
(* od                                                                      *)

RECURSIVE OctalOf(_)
\* The octal digits of k, most significant first ("0" for 0).
OctalOf(k) ==
    IF k < 8 THEN <<OctalDigits[k + 1]>>
    ELSE Append(OctalOf(k \div 8), OctalDigits[(k % 8) + 1])

\* format!("{:07o}", k): octal, zero-padded to at least 7 characters.
Fmt07o(k) ==
    LET ds == OctalOf(k)
    IN  IF Len(ds) >= 7 THEN ds ELSE Rep("0", 7 - Len(ds)) \o ds

\* The seven blanks written in place of the offset (line 190).
BlankLabel == Rep(" ", 7)

\* The offset main hands to od: the parsed value, or 0 after a parse error.
ArgOffset(r) == IF r.kind = "Ok" THEN U64ToNat(r.val) ELSE 0

\* A line as handed to the writer: its label, the encoder and the width that
\* rendered the bytes [from, from + len) of the input, and whether the line
\* was ended ("enc" is "none" for the closing line).
Line(label, enc, w, from, len, nl) ==
    [label |-> label, enc |-> enc, width |-> w, from |-> from, len |-> len,
     nl |-> nl]

\* An error that is recorded while od goes on to its closing line.
OdFail_Continue(op) ==
    /\ ret' = ret
    /\ err' = op
    /\ pc' = "close"

\* An error propagated by `?`: od returns it at once.
OdFail(op) ==
    /\ ret' = "Err"
    /\ err' = op
    /\ pc' = "exit"

\* Line 172: open the input; lines 173-174.
OdOpen ==
    /\ pc = "open"
    /\ presult.kind = "Ok" => U64IsSmall(presult.val)
    /\ start' = ArgOffset(presult)
    /\ offset' = ArgOffset(presult)
    /\ \/ OdFail("open")
       \/ /\ pc' = IF ArgOffset(presult) > 0 THEN "seek" ELSE "read"
          /\ UNCHANGED <<ret, err>>
    /\ UNCHANGED <<opts, offstr, flen, presult, fmt_fns, width, pos, n, fi,
                   nreads, chunks, out, status>>
    /\ UNCHANGED <<encvars, teevars>>

\* Lines 176-178: seek to the offset (the input may not support it).
OdSeek ==
    /\ pc = "seek"
    /\ \/ OdFail("seek") /\ pos' = pos
       \/ pos' = offset /\ pc' = "read" /\ UNCHANGED <<ret, err>>
    /\ UNCHANGED <<opts, offstr, flen, presult, fmt_fns, width, start, offset,
                   n, fi, nreads, chunks, out, status>>
    /\ UNCHANGED <<encvars, teevars>>

\* A loop that ends only on an empty read.
IsLastRead_OnlyEmpty(k) == k = 0

\* An offset that advances by the bytes read.
NextOffset_ByCount(off, k) == off + k

\* Line 197: a read of fewer than CHUNK_SIZE bytes ends the loop.
IsLastRead(k) == k < CHUNK_SIZE

\* Line 194: offset += chunk.len(), the length of the buffer and not the
\* count k of bytes read.
NextOffset(off, k) == off + CHUNK_SIZE

\* What reader.read(&mut chunk) may return at position p (line 182): 0 at
\* the end of the input, else any count from 1 to the bytes available, up
\* to CHUNK_SIZE.  Read::read may return fewer bytes than asked for: the
\* BufReader hands out what one read of the input gave it, which for a
\* pipe or a terminal on standard input is what has arrived so far.
ReadCounts(p) ==
    IF p >= flen THEN {0}
    ELSE 1..(IF flen - p < CHUNK_SIZE THEN flen - p ELSE CHUNK_SIZE)

\* Lines 182-184 and 197-199: one read; a non-empty chunk goes to the
\* encoders, an empty one ends the loop.
OdRead ==
    /\ pc = "read"
    /\ nreads' = nreads + 1
    /\ \/ OdFail("read") /\ UNCHANGED <<pos, n, fi, chunks>>
       \/ \E k \in ReadCounts(pos) :
             /\ n' = k
             /\ pos' = pos + k
             /\ UNCHANGED <<ret, err>>
             /\ IF k > 0
                THEN /\ chunks' = Append(chunks, <<pos, k>>)
                     /\ fi' = 1
                     /\ pc' = IF fmt_fns = <<>> THEN "advance" ELSE "fmt"
                ELSE /\ chunks' = chunks
                     /\ fi' = fi
                     /\ pc' = IF IsLastRead(k) THEN "close" ELSE "read"
    /\ UNCHANGED <<opts, offstr, flen, presult, fmt_fns, width, start, offset,
                   out, status>>
    /\ UNCHANGED <<encvars, teevars>>

\* A label that repeats the offset on every line of the chunk.
LabelOf_Always(i, off) == Fmt07o(off)

\* The label of the line of encoder i of a chunk (lines 186-191).
LabelOf(i, off) == IF i = 1 THEN Fmt07o(off) ELSE BlankLabel

\* Lines 185-193: one pass of the for loop over the encoders: the label,
\* then the encoder's line; either write may fail.
OdFmt ==
    /\ pc = "fmt"
    /\ \/ OdFail("write") /\ UNCHANGED <<out, fi>>
       \/ /\ OdFail("write")
          /\ out' = Append(out, Line(LabelOf(fi, offset), fmt_fns[fi], width,
                                     pos - n, 0, FALSE))
          /\ fi' = fi
       \/ /\ out' = Append(out, Line(LabelOf(fi, offset), fmt_fns[fi], width,
                                     pos - n, n, TRUE))
          /\ fi' = fi + 1
          /\ pc' = IF fi = Len(fmt_fns) THEN "advance" ELSE "fmt"
          /\ UNCHANGED <<ret, err>>
    /\ UNCHANGED <<opts, offstr, flen, presult, fmt_fns, width, start, offset,
                   pos, n, nreads, chunks, status>>
    /\ UNCHANGED <<encvars, teevars>>

\* Lines 194-199: advance the offset, then leave the loop after a short
\* chunk.
OdAdvance ==
    /\ pc = "advance"
    /\ offset' = NextOffset(offset, n)
    /\ pc' = IF IsLastRead(n) THEN "close" ELSE "read"
    /\ UNCHANGED <<opts, offstr, flen, presult, fmt_fns, width, start, pos, n,
                   fi, nreads, chunks, out, ret, err, status>>
    /\ UNCHANGED <<encvars, teevars>>

\* Lines 201-202: the closing line, then Ok(offset).
OdClose ==
    /\ pc = "close"
    /\ \/ OdFail("write") /\ out' = out
       \/ /\ out' = Append(out, Line(Fmt07o(offset), "none", 0, pos, 0, TRUE))
          /\ ret' = "Ok"
          /\ err' = err
          /\ pc' = "exit"
    /\ UNCHANGED <<opts, offstr, flen, presult, fmt_fns, width, start, offset,
                   pos, n, fi, nreads, chunks, status>>
    /\ UNCHANGED <<encvars, teevars>>

\* An exit status that ignores od's result.
ExitStatus_Zero(r) == 0

\* main, lines 279-285: exit(0) on Ok, exit(1) on Err.
ExitStatus(r) == IF r = "Ok" THEN 0 ELSE 1

MainExit ==
    /\ pc = "exit"
    /\ status' = ExitStatus(ret)
    /\ pc' = "done"
    /\ UNCHANGED <<opts, offstr, flen, presult, fmt_fns, width, start, offset,
                   pos, n, fi, nreads, chunks, out, ret, err>>
    /\ UNCHANGED <<encvars, teevars>>

InitParse ==
    /\ pc = "parse"
    /\ opts = <<>>
    /\ offstr \in ParseInputs
    /\ flen = 0
    /\ presult = NoResult
    /\ fmt_fns = <<>>
    /\ width = 0
    /\ start = 0
    /\ offset = 0
    /\ pos = 0
    /\ n = 0
    /\ fi = 0
    /\ nreads = 0
    /\ chunks = <<>>
    /\ out = <<>>
    /\ ret = "None"
    /\ err = "none"
    /\ status = -1
    /\ EncIdle
    /\ TeeIdle

NextParse == MainParseOffset

SpecParse == InitParse /\ [][NextParse]_vars

----------------------------------------------------------------------------
(* The word encoders.                                                      *)

HexDigits == DecimalDigits \o <<"a", "b", "c", "d", "e", "f">>

RECURSIVE DigitsOf(_, _)
\* The digits of v in the base, most significant first ("0" for 0).
DigitsOf(v, base) ==
    IF v < base THEN <<HexDigits[v + 1]>>
    ELSE Append(DigitsOf(v \div base, base), HexDigits[(v % base) + 1])

\* Right-justify s in w columns of the fill character; never truncate.
PadLeft(s, w, fill) == IF Len(s) >= w THEN s ELSE Rep(fill, w - Len(s)) \o s

\* format!($fmt, word) for the three format strings.
FormatWord(fmt, v) ==
    CASE fmt = "{:06o}" -> PadLeft(DigitsOf(v, 8), 6, "0")
      [] fmt = "{:5}"   -> PadLeft(DigitsOf(v, 10), 5, " ")
      [] fmt = "{:04x}" -> PadLeft(DigitsOf(v, 16), 4, "0")

\* A word taken high byte first.
WordOf_BigEndian(word) ==
    IF Len(word) = 1 THEN word[1] ELSE ((word[1] * 256) % 65536) + word[2]

\* The u16 of write_word: u16::from(word[1]) << 8 | u16::from(word[0]), or
\* u16::from(word[0]) for a word of one byte.  The shifted byte has its low
\* eight bits clear, so the bitwise or is a sum.
WordOf(word) ==
    IF Len(word) = 1 THEN word[1] ELSE ((word[2] * 256) % 65536) + word[1]

\* write_word!: a blank, then the formatted word right-justified in width.
write_word(word, fmt, w) == <<" ">> \o PadLeft(FormatWord(fmt, WordOf(word)), w, " ")

\* data.chunks(2): the words of the chunk, the last of one byte if the
\* chunk is odd.
ChunksOf2(d) ==
    [i \in 1..((Len(d) + 1) \div 2) |->
        SubSeq(d, 2 * i - 1, IF 2 * i <= Len(d) THEN 2 * i ELSE Len(d))]

RECURSIVE WriteWords(_, _, _, _)
\* The for loop of a word encoder from word i on, then writeln!.
WriteWords(ws, fmt, w, i) ==
    IF i > Len(ws) THEN <<"\n">>
    ELSE write_word(ws[i], fmt, w) \o WriteWords(ws, fmt, w, i + 1)

write_oct_words(d, w) == WriteWords(ChunksOf2(d), "{:06o}", w, 1)
write_dec_words(d, w) == WriteWords(ChunksOf2(d), "{:5}", w, 1)
write_hex_words(d, w) == WriteWords(ChunksOf2(d), "{:04x}", w, 1)

WriteOctWords ==
    /\ data # <<>>
    /\ text["write_oct_words"] = <<>>
    /\ text' = [text EXCEPT !["write_oct_words"] = write_oct_words(data, enc_width)]
    /\ UNCHANGED <<data, enc_width, odvars, teevars>>

WriteDecWords ==
    /\ data # <<>>
    /\ text["write_dec_words"] = <<>>
    /\ text' = [text EXCEPT !["write_dec_words"] = write_dec_words(data, enc_width)]
    /\ UNCHANGED <<data, enc_width, odvars, teevars>>

WriteHexWords ==
    /\ data # <<>>
    /\ text["write_hex_words"] = <<>>
    /\ text' = [text EXCEPT !["write_hex_words"] = write_hex_words(data, enc_width)]
    /\ UNCHANGED <<data, enc_width, odvars, teevars>>

----------------------------------------------------------------------------
(* tee                                                                     *)

\* main, lines 66-86: standard output, then every file that opens.
TeeOpen ==
    /\ tpc = "open"
    /\ dests' = [w \in 1..(1 + Cardinality({i \in 1..Len(opens) : opens[i]})) |-> <<>>]
    /\ tpc' = "read"
    /\ UNCHANGED <<opens, input, rpos, buf, odvars, encvars>>

\* io::copy, line 88: one read of standard input: some of the bytes left,
\* nothing at the end of the input (copy returns Ok), or an error.
TeeRead ==
    /\ tpc = "read"
    /\ \/ /\ tpc' = "failed"
          /\ UNCHANGED <<rpos, buf>>
       \/ /\ rpos = Len(input)
          /\ tpc' = "done"
          /\ UNCHANGED <<rpos, buf>>
       \/ \E k \in 1..(Len(input) - rpos) :
             /\ buf' = SubSeq(input, rpos + 1, rpos + k)
             /\ rpos' = rpos + k
             /\ tpc' = "write"
    /\ UNCHANGED <<opens, input, dests, odvars, encvars>>

\* The writers' share of one Tee::write: writer w takes the first cnt[w]
\* bytes of the buffer.
Deliver(ds, b, cnt, upto) ==
    [w \in 1..Len(ds) |-> IF w <= upto THEN ds[w] \o SubSeq(b, 1, cnt[w]) ELSE ds[w]]

\* Tee::write, lines 33-39, under write_all: every writer is handed the
\* whole buffer and takes some prefix of it; the count of the last writer is
\* returned, and write_all drops that many bytes from the buffer (a count
\* of 0 is the error WriteZero).  An error of writer w returns at once, the
\* writers before it having written.
TeeWrite ==
    /\ tpc = "write"
    /\ \E cnt \in [1..Len(dests) -> 0..Len(buf)] :
          \/ \E w \in 1..Len(dests) :
                /\ dests' = Deliver(dests, buf, cnt, w - 1)
                /\ tpc' = "failed"
                /\ buf' = buf
          \/ /\ dests' = Deliver(dests, buf, cnt, Len(dests))
             /\ LET cntlast == cnt[Len(dests)]
                IN  IF cntlast = 0
                    THEN tpc' = "failed" /\ buf' = buf
                    ELSE /\ buf' = SubSeq(buf, cntlast + 1, Len(buf))
                         /\ tpc' = IF cntlast = Len(buf) THEN "read" ELSE "write"
    /\ UNCHANGED <<opens, input, rpos, odvars, encvars>>

----------------------------------------------------------------------------
(* The specification of an od run.                                         *)

\* Longest input.
MaxFileLen == 20
\* Most option letters on the command line.
MaxOpts == 2

RECURSIVE OptSeqs(_)
OptSeqs(k) ==
    IF k = 0 THEN {<<>>}
    ELSE LET shorter == OptSeqs(k - 1)
         IN  shorter \cup {Append(s, f) : s \in {t \in shorter : Len(t) = k - 1},
                                          f \in Flags}

\* The offset specifiers of an od run: the default "0" of main, and
\* arguments that start with '+' (line 250).
OdOffStrs ==
    {<<"0">>, <<"+", "1">>, <<"+", "2", "0">>, <<"+", "x">>,
     <<"+", "1">> \o Rep("0", 21) \o <<"b">>}

InitOd ==
    /\ pc = "args"
    /\ opts \in OptSeqs(MaxOpts)
    /\ offstr \in OdOffStrs
    /\ flen \in 0..MaxFileLen
    /\ presult = NoResult
    /\ fmt_fns = <<>>
    /\ width = 0
    /\ start = 0
    /\ offset = 0
    /\ pos = 0
    /\ n = 0
    /\ fi = 0
    /\ nreads = 0
    /\ chunks = <<>>
    /\ out = <<>>
    /\ ret = "None"
    /\ err = "none"
    /\ status = -1
    /\ EncIdle
    /\ TeeIdle

NextOd ==
    \/ MainArgs
    \/ MainParseOffset
    \/ OdOpen
    \/ OdSeek
    \/ OdRead
    \/ OdFmt
    \/ OdAdvance
    \/ OdClose
    \/ MainExit

SpecOd == InitOd /\ [][NextOd]_vars

----------------------------------------------------------------------------
(* The specification of the word encoders.                                 *)

\* Longest chunk handed to the encoders.
MaxChunkLen == 3

\* Bytes at the edges of the formats: 0x12 and 0x34, the digit boundaries
\* of the three radices in either byte, the largest byte.
ByteSamples == {0, 1, 7, 10, 18, 52, 128, 255}

RECURSIVE ByteSeqs(_)
ByteSeqs(k) ==
    IF k = 0 THEN {<<>>}
    ELSE LET shorter == ByteSeqs(k - 1)
         IN  shorter \cup {Append(s, b) : s \in {t \in shorter : Len(t) = k - 1},
                                          b \in ByteSamples}

InitEnc ==
    /\ data \in ByteSeqs(MaxChunkLen) \ {<<>>}
    /\ enc_width \in {Configure(os).width : os \in OptSeqs(MaxOpts)}
    /\ text = [f \in WordEncoders |-> <<>>]
    /\ OdIdle
    /\ TeeIdle

NextEnc ==
    \/ WriteOctWords
    \/ WriteDecWords
    \/ WriteHexWords

SpecEnc == InitEnc /\ [][NextEnc]_vars

----------------------------------------------------------------------------
(* The specification of a tee run.                                         *)

\* Longest standard input.
MaxInput == 3
\* Most file arguments.
MaxFiles == 2

RECURSIVE SeqsUpTo(_, _)
SeqsUpTo(S, k) ==
    IF k = 0 THEN {<<>>}
    ELSE LET shorter == SeqsUpTo(S, k - 1)
         IN  shorter \cup {Append(s, x) : s \in {t \in shorter : Len(t) = k - 1},
                                          x \in S}

InitTee ==
    /\ tpc = "open"
    /\ opens \in SeqsUpTo(BOOLEAN, MaxFiles)
    /\ input \in SeqsUpTo({"a", "b"}, MaxInput)
    /\ rpos = 0
    /\ buf = <<>>
    /\ dests = <<>>
    /\ OdIdle
    /\ EncIdle

NextTee ==
    \/ TeeOpen
    \/ TeeRead
    \/ TeeWrite

SpecTee == InitTee /\ [][NextTee]_vars

----------------------------------------------------------------------------
(* Offset specifiers as the grammar [+]digits[.][b] reads them.            *)

IsRadixDigit(c, r) ==
    IF r = 8 THEN c \in {"0", "1", "2", "3", "4", "5", "6", "7"}
    ELSE c \in {"0", "1", "2", "3", "4", "5", "6", "7", "8", "9"}

DigitValue(c) == (CHOOSE i \in 1..10 : DecimalDigits[i] = c) - 1

HasB(str) == Len(str) > 0 /\ str[Len(str)] = "b"
WithoutB(str) == IF HasB(str) THEN SubSeq(str, 1, Len(str) - 1) ELSE str
HasDot(str) == Len(WithoutB(str)) > 0 /\ WithoutB(str)[Len(WithoutB(str))] = "."

\* What is left after removing the optional trailing 'b' and '.'.
Body(str) ==
    IF HasDot(str) THEN SubSeq(WithoutB(str), 1, Len(WithoutB(str)) - 1)
    ELSE WithoutB(str)

\* The body without one leading '+'.
Digits(str) ==
    IF Len(Body(str)) > 0 /\ Body(str)[1] = "+" THEN Tail(Body(str)) ELSE Body(str)

Radix(str) == IF HasDot(str) THEN 10 ELSE 8
Multiplier(str) == IF HasB(str) THEN 512 ELSE 1

HasBadDigit(ds, r) == \E i \in 1..Len(ds) : ~IsRadixDigit(ds[i], r)

InGrammar(str) == Len(Digits(str)) > 0 /\ ~HasBadDigit(Digits(str), Radix(str))

\* Exact arithmetic on six limbs (96 bits), wide enough for every input.
BigZero == <<0, 0, 0, 0, 0, 0>>

BigMulAdd(x, k, d) == SubSeq(MulAddLimbs(x, k, d, 1), 1, Len(BigZero))

RECURSIVE ExactDigits(_, _, _, _)
ExactDigits(ds, r, i, acc) ==
    IF i > Len(ds) THEN acc
    ELSE ExactDigits(ds, r, i + 1, BigMulAdd(acc, r, DigitValue(ds[i])))

\* The number the digits denote in the resolved radix.
ExactValue(str) == ExactDigits(Digits(str), Radix(str), 1, BigZero)
\* That number times the multiplier.
ExactProduct(str) == BigMulAdd(ExactValue(str), Multiplier(str), 0)

FitsU64(big) == \A i \in (U64Limbs + 1)..Len(big) : big[i] = 0
Widen(x) == x \o [i \in 1..(Len(BigZero) - U64Limbs) |-> 0]

Parsed == pc # "parse" /\ pc # "args"

\* C1 as stated: every specifier [+]digits[.][b] with digits valid in the
\* resolved radix yields Ok(value x multiplier).
C1_EveryValue ==
    (Parsed /\ InGrammar(offstr))
        => (presult.kind = "Ok" /\ Widen(presult.val) = ExactProduct(offstr))

U64Of(k) == <<k % LimbBase, k \div LimbBase, 0, 0>>

IsOk(str, k) == offstr = str => presult = [kind |-> "Ok", val |-> U64Of(k)]

\* C1 amended: every specifier [+]digits[.][b] with digits valid in the
\* resolved radix (decimal after a '.', octal otherwise) and a product
\* value x multiplier below 2^64 (the multiplier 512 after a 'b' and 1
\* otherwise) yields Ok(value x multiplier), with or without the leading
\* '+'; "100" gives 64, "100." 100, "100b" 64*512 and "100.b" 100*512.
C1_ParseValue ==
    Parsed =>
        /\ (InGrammar(offstr) /\ FitsU64(ExactProduct(offstr)))
              => (presult.kind = "Ok" /\ Widen(presult.val) = ExactProduct(offstr))
        /\ \A pre \in {<<>>, <<"+">>} :
              /\ IsOk(pre \o <<"1", "0", "0">>, 64)
              /\ IsOk(pre \o <<"1", "0", "0", ".">>, 100)
              /\ IsOk(pre \o <<"1", "0", "0", "b">>, 64 * 512)
              /\ IsOk(pre \o <<"1", "0", "0", ".", "b">>, 100 * 512)

C1_Witness ==
    /\ Parsed
    /\ offstr = <<"+", "1", "0", "0", ".", "b">>
    /\ presult = [kind |-> "Ok", val |-> <<51200, 0, 0, 0>>]

\* C2 as stated: a body (the specifier less its trailing 'b' and '.') that
\* is empty or holds a character that is no digit of the radix gives an error.
C2_BodyRejected ==
    (Parsed /\ (Body(offstr) = <<>> \/ HasBadDigit(Body(offstr), Radix(offstr))))
        => presult.kind = "Err"

\* C2 amended: the digits (the body less one leading '+') being empty or
\* holding a character that is no digit of the radix gives an error, never
\* a number.
C2_DigitsRejected ==
    (Parsed /\ (Digits(offstr) = <<>> \/ HasBadDigit(Digits(offstr), Radix(offstr))))
        => presult.kind = "Err"

C2_Witness ==
    /\ Parsed
    /\ offstr = <<"+", "8">>
    /\ presult.kind = "Err"

\* C9: whenever the digits parse as a u64 n, parse_offset neither aborts
\* nor wraps: it returns exactly n x multiplier.
C9_NoOverflow ==
    (Parsed /\ InGrammar(offstr) /\ FitsU64(ExactValue(offstr)))
        => /\ presult.kind # "Panic"
           /\ presult.kind # "Err"
           /\ presult.kind = "Ok" => /\ FitsU64(ExactProduct(offstr))
                                     /\ Widen(presult.val) = ExactProduct(offstr)

----------------------------------------------------------------------------
(* Properties of an od run.                                                *)

RECURSIVE OctalValueFrom(_, _, _)
OctalValueFrom(s, i, acc) ==
    IF i > Len(s) THEN acc
    ELSE IF ~IsRadixDigit(s[i], 8) THEN -1
    ELSE OctalValueFrom(s, i + 1, 8 * acc + DigitValue(s[i]))

\* The number a label of octal digits denotes (-1 if it is no such label).
OctalValue(s) == IF s = <<>> THEN -1 ELSE OctalValueFrom(s, 1, 0)

CeilDiv(a, b) == (a + b - 1) \div b
Min(a, b) == IF a < b THEN a ELSE b

\* The bytes between the starting offset and the end of the input.
Span == IF flen > start THEN flen - start ELSE 0

ChunkPos(k) == chunks[k][1]
ChunkLen(k) == chunks[k][2]

\* ceil(Span / 16) chunks, all of 16 bytes but the last, which holds the rest.
ExactChunking ==
    /\ Len(chunks) = CeilDiv(Span, CHUNK_SIZE)
    /\ \A k \in 1..(Len(chunks) - 1) : ChunkLen(k) = CHUNK_SIZE
    /\ chunks # <<>> =>
          ChunkLen(Len(chunks)) =
              (IF Span % CHUNK_SIZE = 0 THEN CHUNK_SIZE ELSE Span % CHUNK_SIZE)

\* Every read returned all the bytes available, up to 16.
FullReads == \A k \in 1..Len(chunks) : ChunkLen(k) = Min(CHUNK_SIZE, flen - ChunkPos(k))

\* C3 as stated: when the read loop has ended it has processed exactly
\* ceil((L-o)/16) chunks, the last holding the remainder.
C3_ExactChunks == pc = "close" => ExactChunking

\* C3 amended: the loop ends at the first read of fewer than 16 bytes; each
\* non-empty read gives one chunk, every chunk but the last has 16 bytes,
\* there are at most ceil((L-o)/16) chunks, and exactly that many, the last
\* holding the remainder, when every read returns all the bytes available;
\* an empty read gives no chunk, and at most floor((L-o)/16)+1 reads are made.
C3_Chunks ==
    /\ \A k \in 1..Len(chunks) : ChunkLen(k) \in 1..CHUNK_SIZE
    /\ \A k \in 1..(Len(chunks) - 1) : ChunkLen(k) = CHUNK_SIZE
    /\ \A k \in 1..Len(chunks) : ChunkPos(k) = start + CHUNK_SIZE * (k - 1)
    /\ Len(chunks) <= CeilDiv(Span, CHUNK_SIZE)
    /\ Len(chunks) <= nreads
    /\ nreads <= (Span \div CHUNK_SIZE) + 1
    /\ pc = "close" =>
          /\ n < CHUNK_SIZE
          /\ Len(chunks) = IF n = 0 THEN nreads - 1 ELSE nreads
          /\ FullReads => ExactChunking
          /\ start >= flen => chunks = <<>>

C3_Witness ==
    /\ pc = "close"
    /\ Len(chunks) = 2
    /\ ChunkLen(2) = 1
    /\ start = 0
    /\ flen = 17

IsEncLine(l) == l.enc # "none"
IsClosingLine(l) == l.enc = "none"

ChunksDone == (offset - start) \div CHUNK_SIZE

\* C5: with m >= 1 encoders, every chunk od has moved past owns exactly m
\* consecutive lines, ahead of every line of the next chunk, one per encoder
\* in the configured order; the first begins with the running offset in 7
\* octal digits and each of the others with exactly 7 blanks.
C5_LinesPerChunk ==
    (pc \notin {"args", "parse"} /\ Len(fmt_fns) >= 1) =>
        LET m == Len(fmt_fns)
            encLines == SelectSeq(out, IsEncLine)
        IN  /\ Len(encLines) >= m * ChunksDone
            /\ pc \in {"read", "close", "done"} /\ ret # "Err"
                  => Len(encLines) = m * Len(chunks)
            /\ \A j \in 1..Len(encLines) :
                  LET k == ((j - 1) \div m) + 1
                      i == ((j - 1) % m) + 1
                      l == encLines[j]
                  IN  /\ l = out[j]
                      /\ k <= Len(chunks)
                      /\ l.from = ChunkPos(k)
                      /\ l.enc = fmt_fns[i]
                      /\ l.nl => l.len = ChunkLen(k)
                      /\ k <= ChunksDone => l.nl
                      /\ IF i = 1
                         THEN /\ Len(l.label) = 7
                              /\ OctalValue(l.label) = start + CHUNK_SIZE * (k - 1)
                         ELSE l.label = <<" ", " ", " ", " ", " ", " ", " ">>

C5_Witness ==
    /\ pc = "done"
    /\ ret = "Ok"
    /\ fmt_fns = <<"write_oct_bytes", "write_ascii_chars">>
    /\ Len(chunks) = 2
    /\ Len(out) = 5

ClosingWritten == out # <<>> /\ IsClosingLine(out[Len(out)]) /\ out[Len(out)].nl

IsPrefix(a, b) == Len(a) <= Len(b) /\ SubSeq(b, 1, Len(a)) = a

InputErrors == {"open", "seek", "read"}

\* C8: once opening, seeking or reading has failed, no read is attempted and
\* nothing is written any more, od's result is the error, no closing line
\* exists, and at every step the lines written so far stay as they are, in
\* their order.
C8_FailStops ==
    /\ [][/\ IsPrefix(out, out')
          /\ err \in InputErrors =>
                (nreads' = nreads /\ out' = out /\ err' = err /\ ret' = ret)]_vars
    /\ [](err \in InputErrors =>
            /\ ret = "Err"
            /\ pc \in {"exit", "done"}
            /\ \A j \in 1..Len(out) : IsEncLine(out[j])
            /\ pc = "done" => status = 1)

C8_Witness ==
    /\ pc = "done"
    /\ err = "read"
    /\ Len(out) = 2
    /\ nreads = 2

----------------------------------------------------------------------------
(* Properties of the word encoders.                                        *)

RECURSIVE SplitFrom(_, _, _, _)
\* The maximal runs of characters other than blanks and newlines.
SplitFrom(s, i, cur, acc) ==
    IF i > Len(s) THEN (IF cur = <<>> THEN acc ELSE Append(acc, cur))
    ELSE IF s[i] \in {" ", "\n"}
         THEN SplitFrom(s, i + 1, <<>>, IF cur = <<>> THEN acc ELSE Append(acc, cur))
         ELSE SplitFrom(s, i + 1, Append(cur, s[i]), acc)

Tokens(s) == SplitFrom(s, 1, <<>>, <<>>)

RECURSIVE NumberFrom(_, _, _, _)
NumberFrom(tok, base, i, acc) ==
    IF i > Len(tok) THEN acc
    ELSE LET ds == {d \in 1..base : HexDigits[d] = tok[i]}
         IN  IF ds = {} THEN -1
             ELSE NumberFrom(tok, base, i + 1, base * acc + (CHOOSE d \in ds : TRUE) - 1)

\* The numbers a line of text denotes in the base (-1 for a token that is
\* no number of it).
Decode(s, base) == [i \in 1..Len(Tokens(s)) |-> NumberFrom(Tokens(s)[i], base, 1, 0)]

BaseOf(f) ==
    CASE f = "write_oct_words" -> 8
      [] f = "write_dec_words" -> 10
      [] f = "write_hex_words" -> 16

\* The little-endian words of a chunk: hi*256 + lo for each pair (lo, hi),
\* and b for a trailing single byte b.
ExpectedWords(d) ==
    [i \in 1..((Len(d) + 1) \div 2) |->
        IF 2 * i <= Len(d) THEN d[2 * i] * 256 + d[2 * i - 1] ELSE d[2 * i - 1]]

\* C7: the text of each of the three word encoders decodes, in the
\* encoder's radix, to the little-endian words of the chunk, so the three
\* render the same values; [0x34, 0x12] reads back as 0x1234 = 4660.
C7_WordsRoundTrip ==
    \A f \in WordEncoders :
        text[f] # <<>> =>
            /\ Decode(text[f], BaseOf(f)) = ExpectedWords(data)
            /\ text[f][Len(text[f])] = "\n"
            /\ data = <<52, 18>> => Decode(text[f], BaseOf(f)) = <<4660>>
            /\ \A g \in WordEncoders :
                  text[g] # <<>> => Decode(text[g], BaseOf(g)) = Decode(text[f], BaseOf(f))

C7_Witness ==
    /\ data = <<52, 18>>
    /\ enc_width = 6
    /\ text["write_oct_words"] = <<" ", "0", "1", "1", "0", "6", "4", "\n">>
    /\ text["write_dec_words"] = <<" ", " ", " ", "4", "6", "6", "0", "\n">>
    /\ text["write_hex_words"] = <<" ", " ", " ", "1", "2", "3", "4", "\n">>

----------------------------------------------------------------------------
(* Properties of a tee run.                                                *)

\* C10: when the copy ends without error, every writer of the Tee has
\* received exactly the bytes of standard input, in order.
C10_AllDestinationsComplete ==
    tpc = "done" => \A w \in 1..Len(dests) : dests[w] = input

====
